---- MODULE Spec2Model ----
(***************************************************************************)
(* A model of the disk-delta encoder/decoder pipeline of                   *)
(* src/src/diskdelta: the block-hash index of the initial image, the       *)
(* known-block store, the message builder, the bit-packed serializer and   *)
(* its reader, the deserializer and the applier.                           *)
(*                                                                         *)
(* Bytes are integers 0..255, byte strings are sequences of bytes, bit     *)
(* arrays are sequences over {0,1}.  Files are byte strings.               *)
(***************************************************************************)
EXTENDS Integers, Sequences, FiniteSets, TLC

\* ------------------------------------------------------------------ bounds
\* Largest image length, in blocks.
MaxBlocks == 3
\* Block sizes (bytes) and digest sizes (bits) the runs are drawn from.
BlockSizes == {1, 2}
DigestSizes == {2, 8, 12}
\* Byte values the image blocks are filled with (each block repeats one byte).
FillBytes == {0, 65}

\* --------------------------------------------------------------- sequences
Take(s, n) == SubSeq(s, 1, IF n < Len(s) THEN n ELSE Len(s))
Drop(s, n) == SubSeq(s, n + 1, Len(s))
\* Python slice s[a:b] with 0 <= a (0-based, b exclusive), clipped to the length.
Slice(s, a, b) == SubSeq(s, a + 1, IF b < Len(s) THEN b ELSE Len(s))
Zeros(n) == [i \in 1..n |-> 0]
Range(s) == {s[i] : i \in 1..Len(s)}
CeilDiv(a, b) == (a + b - 1) \div b
Max(a, b) == IF a >= b THEN a ELSE b

\* F applied to the value of v, v computed once.
Bind(F(_), v) == CHOOSE y \in {F(x) : x \in {v}} : TRUE

RECURSIVE Pow2(_)
Pow2(n) == IF n <= 0 THEN 1 ELSE 2 * Pow2(n - 1)

\* ------------------------------------------------------- integer <-> bits
\* int.bit_length()
RECURSIVE bit_length(_)
bit_length(v) == IF v = 0 THEN 0
                 ELSE IF v < 0 THEN bit_length(-v)
                 ELSE 1 + bit_length(v \div 2)

\* A width of one bit whatever the value.
get_index_bits_size_one(value) == 1

\* A width that is one bit short at powers of two: ceil(log2(value)).
get_index_bits_size_log2(value) == IF value = 0 THEN 1 ELSE bit_length(value - 1)

get_index_bits_size(value) == IF value = 0 THEN 1 ELSE bit_length(value)

\* The binary digits of v >= 0, most significant first ("0" for 0).
RECURSIVE Bin(_)
Bin(v) == IF v < 2 THEN <<v>> ELSE Bin(v \div 2) \o <<v % 2>>

\* bitarray(f"{v:0{w}b}"): the digits of v, left-padded with zeros to at least
\* w characters; a value that needs more than w digits keeps them all.
FormatBits(v, w) == LET b == Bin(v)
                    IN IF Len(b) >= w THEN b ELSE Zeros(w - Len(b)) \o b

\* int(bits.to01(), 2) for a non-empty bit array.
RECURSIVE BitsToInt(_)
BitsToInt(bits) == IF Len(bits) = 0 THEN 0
                   ELSE 2 * BitsToInt(Take(bits, Len(bits) - 1)) + bits[Len(bits)]

\* bitarray.frombytes: eight bits per byte, most significant first.
RECURSIVE frombytes(_)
frombytes(bs) == IF Len(bs) = 0 THEN <<>>
                 ELSE FormatBits(bs[1], 8) \o frombytes(Drop(bs, 1))

\* bitarray.tobytes: groups of eight bits, the last group padded with zero
\* bits on the right.
RECURSIVE tobytes(_)
tobytes(bits) ==
    IF Len(bits) = 0 THEN <<>>
    ELSE IF Len(bits) < 8 THEN <<BitsToInt(bits \o Zeros(8 - Len(bits)))>>
    ELSE <<BitsToInt(Take(bits, 8))>> \o tobytes(Drop(bits, 8))

\* int.to_bytes(length), big-endian.
RECURSIVE to_bytes(_, _)
to_bytes(v, length) == IF length = 0 THEN <<>>
                       ELSE to_bytes(v \div 256, length - 1) \o <<v % 256>>

\* int.from_bytes(data), big-endian.
RECURSIVE from_bytes(_)
from_bytes(bs) == IF Len(bs) = 0 THEN 0
                  ELSE 256 * from_bytes(Take(bs, Len(bs) - 1)) + bs[Len(bs)]

\* ------------------------------------------------------------------ Hasher
\* The first two bytes of SHA-256 over the blocks the images are built from
\* (the real digests of b"\x00"*k and b"A"*k).
Sha256Prefix(data) ==
    CASE data = <<0>>          -> <<110, 52>>
      [] data = <<0, 0>>       -> <<150, 162>>
      [] data = <<0, 0, 0>>    -> <<112, 158>>
      [] data = <<65>>         -> <<85, 154>>
      [] data = <<65, 65>>     -> <<88, 187>>
      [] data = <<65, 65, 65>> -> <<203, 26>>

\* Hasher.hash: SHA-256 truncated to ceil(D/8) bytes, the bits of the last
\* byte beyond D cleared.
Hash(data, hash_size) ==
    LET num_bytes  == CeilDiv(hash_size, 8)
        hash_bytes == Take(Sha256Prefix(data), num_bytes)
        low        == Pow2(8 - (hash_size % 8))
    IN IF hash_size % 8 # 0
       THEN Take(hash_bytes, num_bytes - 1)
              \o <<hash_bytes[num_bytes] - (hash_bytes[num_bytes] % low)>>
       ELSE hash_bytes

\* --------------------------------------------------------- IndexHashMapper
\* f.seek(index * block_size); f.read(block_size)
literal_by_index(image, block_size, index) ==
    Slice(image, index * block_size, (index + 1) * block_size)

get_hash_by_index(image, block_size, hash_size, index) ==
    Hash(literal_by_index(image, block_size, index), hash_size)

\* A run list in which every index starts a run of its own.
add_index_to_rle_no_merge(rle, index) == Append(rle, <<index, 1>>)

add_index_to_rle(rle, index) ==
    IF Len(rle) = 0 THEN <<<<index, 1>>>>
    ELSE LET last == rle[Len(rle)]
         IN IF last[1] + last[2] = index
            THEN [rle EXCEPT ![Len(rle)] = <<last[1], last[2] + 1>>]
            ELSE Append(rle, <<index, 1>>)

\* load_entry for block `index`, given the map built from the blocks before it.
load_entry(map, image, block_size, hash_size, index) ==
    LET hash == get_hash_by_index(image, block_size, hash_size, index)
    IN IF hash \in DOMAIN map
       THEN [map EXCEPT ![hash] = add_index_to_rle(map[hash], index)]
       ELSE map @@ (hash :> add_index_to_rle(<<>>, index))

\* IndexHashMapper.load: the map after reading blocks 0 .. n-1.
RECURSIVE load_upto(_, _, _, _)
load_upto(image, block_size, hash_size, n) ==
    IF n = 0 THEN <<>>
    ELSE load_entry(load_upto(image, block_size, hash_size, n - 1),
                    image, block_size, hash_size, n - 1)

load(image, block_size, hash_size) ==
    load_upto(image, block_size, hash_size, CeilDiv(Len(image), block_size))

\* A lookup that hands the runs back latest first.
get_indexes_by_hash_latest(map, hash) ==
    IF hash \in DOMAIN map
    THEN [k \in 1..Len(map[hash]) |-> map[hash][Len(map[hash]) + 1 - k]]
    ELSE <<>>

get_indexes_by_hash(map, hash) == IF hash \in DOMAIN map THEN map[hash] ELSE <<>>

\* ---------------------------------------------------------- BlockHashStore
\* BlockHashStore.load: the digest of every record of the backing file.
RECURSIVE store_load_from(_, _, _, _)
store_load_from(file, block_size, digest_bits, index) ==
    LET dl    == CeilDiv(digest_bits, 8)
        off   == index * (block_size + dl)
        block == Slice(file, off, off + dl)
    IN IF Len(block) = 0 THEN <<>>
       ELSE <<block>> \o store_load_from(file, block_size, digest_bits, index + 1)

\* A load that does not skip the literal after each digest.
store_load_no_skip(file, block_size, digest_bits) ==
    store_load_from(file, 0, digest_bits, 0)

store_load(file, block_size, digest_bits) ==
    store_load_from(file, block_size, digest_bits, 0)

contains_hash(hash_list, hash) == hash \in Range(hash_list)

\* A store whose add appends without looking for the digest.
store_add_always(hash_list, file, digest_bits, hash, data) ==
    IF Len(hash) # CeilDiv(digest_bits, 8)
    THEN [err |-> "ValueError", hashes |-> hash_list, file |-> file]
    ELSE [err |-> "none", hashes |-> Append(hash_list, hash),
          file |-> file \o hash \o data]

\* A store whose add writes the literal before the digest.
store_add_data_first(hash_list, file, digest_bits, hash, data) ==
    IF Len(hash) # CeilDiv(digest_bits, 8)
    THEN [err |-> "ValueError", hashes |-> hash_list, file |-> file]
    ELSE IF hash \in Range(hash_list)
    THEN [err |-> "none", hashes |-> hash_list, file |-> file]
    ELSE [err |-> "none", hashes |-> Append(hash_list, hash),
          file |-> file \o data \o hash]

\* A store whose add checks the digest length and then keeps nothing.
store_add_nothing(hash_list, file, digest_bits, hash, data) ==
    [err |-> IF Len(hash) # CeilDiv(digest_bits, 8) THEN "ValueError" ELSE "none",
     hashes |-> hash_list, file |-> file]

\* BlockHashStore.add: [err, hashes, file] after add(hash, data).
store_add(hash_list, file, digest_bits, hash, data) ==
    IF Len(hash) # CeilDiv(digest_bits, 8)
    THEN [err |-> "ValueError", hashes |-> hash_list, file |-> file]
    ELSE IF hash \in Range(hash_list)
    THEN [err |-> "none", hashes |-> hash_list, file |-> file]
    ELSE [err |-> "none", hashes |-> Append(hash_list, hash),
          file |-> file \o hash \o data]

\* --------------------------------------------------------------- BitWriter
\* Bitwise or of two bytes.
BitOr(a, b) ==
    BitsToInt([i \in 1..8 |-> Max(FormatBits(a, 8)[i], FormatBits(b, 8)[i])])

\* BitWriter.__init__
NewWriter == [file |-> <<>>, bit_index |-> 0, current_byte |-> 0, err |-> "none"]

\* BitWriter.write, first part: fill the free low bits of the current byte.
\* Returns the writer and the bits still to write.
write_fill(w, bits) ==
    IF w.bit_index > 0
    THEN LET new_bits == Take(bits, 8 - w.bit_index)
         IN IF Len(new_bits) = 0
            \* new_bits.tobytes()[0] on an empty bit array
            THEN [w |-> [w EXCEPT !.err = "IndexError"], bits |-> bits]
            ELSE LET byte  == BitOr(w.current_byte,
                                    tobytes(new_bits)[1] \div Pow2(w.bit_index))
                     index == w.bit_index + Len(new_bits)
                 IN [w |-> IF index = 8
                           THEN [w EXCEPT !.file = Append(@, byte),
                                          !.current_byte = 0, !.bit_index = 0]
                           ELSE [w EXCEPT !.current_byte = byte,
                                          !.bit_index = index],
                     bits |-> Drop(bits, Len(new_bits))]
    ELSE [w |-> w, bits |-> bits]

\* BitWriter.write, the rest: whole bytes, then the partial last byte.
write_rest(w, bits) ==
    LET bytes_to_write == Len(bits) \div 8
        w1   == [w EXCEPT !.file = @ \o tobytes(Take(bits, bytes_to_write * 8))]
        rest == Drop(bits, bytes_to_write * 8)
    IN IF Len(rest) > 0
       THEN [w1 EXCEPT !.current_byte = tobytes(rest)[1], !.bit_index = Len(rest)]
       ELSE w1

\* BitWriter.write
BitWriter_write(w, bits) ==
    LET f == write_fill(w, bits)
    IN IF w.err # "none" THEN w
       ELSE IF f.w.err # "none" THEN f.w
       ELSE write_rest(f.w, f.bits)

\* A writer whose close drops the partial last byte.
BitWriter_close_no_flush(w) == w.file

\* BitWriter.__exit__: the bytes of the closed file.
BitWriter_close(w) ==
    IF w.bit_index > 0 THEN Append(w.file, w.current_byte) ELSE w.file

\* --------------------------------------------------------------- BitReader
\* The read-ahead chunk, in bytes (1024 * 1024 in the source, scaled down so
\* that refills happen on small files).
BufferSize == 1

\* A reader whose refill starts again at the beginning of the file.
Refill_rewound(r) ==
    LET chunk == Slice(r.file, 0, BufferSize)
    IN [r EXCEPT !.buffer = chunk, !.pos = Len(chunk), !.buffer_index = 0]

\* self.file.read(self.buffer_size); self.buffer_index = 0
Refill(r) ==
    LET chunk == Slice(r.file, r.pos, r.pos + BufferSize)
    IN [r EXCEPT !.buffer = chunk, !.pos = @ + Len(chunk), !.buffer_index = 0]

\* BitReader.__init__
NewReader(file) ==
    LET chunk == Slice(file, 0, BufferSize)
    IN [file |-> file, pos |-> Len(chunk), buffer |-> chunk,
        buffer_index |-> 0, buffer_bit_index |-> 0]

\* The loop "read buffer_size chunks at a time" of BitReader.read.
RECURSIVE read_chunks(_, _, _)
read_chunks(r, bits, bytes_to_read) ==
    IF r.buffer_index + bytes_to_read > Len(r.buffer)
    THEN LET more == bits \o frombytes(Drop(r.buffer, r.buffer_index))
             left == bytes_to_read - (Len(r.buffer) - r.buffer_index)
             r1   == Refill(r)
         IN IF Len(r1.buffer) = 0
            THEN [status |-> "None", bits |-> more, r |-> r1, bytes_to_read |-> left]
            ELSE read_chunks(r1, more, left)
    ELSE [status |-> "ok", bits |-> bits, r |-> r, bytes_to_read |-> bytes_to_read]

\* BitReader.read after the bits left in the current byte have been taken:
\* whole bytes, a refill when the buffer is used up, then the leading bits of
\* the next byte.
bytes_after_chunks(c, num_bits) ==
    LET n  == num_bits % 8
        r2 == [c.r EXCEPT !.buffer_index = @ + c.bytes_to_read]
        b2 == c.bits \o frombytes(Slice(c.r.buffer, c.r.buffer_index,
                                        c.r.buffer_index + c.bytes_to_read))
        r3 == IF r2.buffer_index = Len(r2.buffer) THEN Refill(r2) ELSE r2
    IN IF c.status = "None" THEN [status |-> "None", bits |-> <<>>, r |-> c.r]
       ELSE IF r2.buffer_index = Len(r2.buffer) /\ n > 0 /\ Len(r3.buffer) = 0
       THEN [status |-> "ValueError", bits |-> <<>>, r |-> r3]
       ELSE IF n > 0
       THEN [status |-> "ok",
             bits |-> b2 \o Take(FormatBits(r3.buffer[r3.buffer_index + 1], 8), n),
             r |-> [r3 EXCEPT !.buffer_bit_index = n]]
       ELSE [status |-> "ok", bits |-> b2, r |-> r3]

read_bytes(r, bits, num_bits) ==
    Bind(LAMBDA c : bytes_after_chunks(c, num_bits),
         read_chunks(r, bits, num_bits \div 8))

\* BitReader.read on the reader value r.
read_from(r, num_bits) ==
    IF r.buffer_bit_index > 0
    THEN LET current_bits == FormatBits(r.buffer[r.buffer_index + 1], 8)
         IN IF num_bits < 8 - r.buffer_bit_index
            THEN [status |-> "ok",
                  bits |-> Slice(current_bits, r.buffer_bit_index,
                                 r.buffer_bit_index + num_bits),
                  r |-> [r EXCEPT !.buffer_bit_index = @ + num_bits]]
            ELSE LET head == Drop(current_bits, r.buffer_bit_index)
                 IN read_bytes([r EXCEPT !.buffer_bit_index = 0,
                                         !.buffer_index = @ + 1],
                               head, num_bits - Len(head))
    ELSE read_bytes(r, <<>>, num_bits)

\* BitReader.read(num_bits): [status, bits, r]; status "None" is end of input.
BitReader_read(r, num_bits) == Bind(LAMBDA rd : read_from(rd, num_bits), r)

\* ----------------------------------------------------------------- Message
DataTypes == {"Literal", "Hash", "DiskReference", "MessageReference"}

Instruction(index, data_type, data) ==
    [disk_index |-> index, data_type |-> data_type, data |-> data]

\* Message.__init__
EmptyMessage ==
    [header_bits_size |-> 0, changed_block_index_size |-> 0,
     disk_ref_bits_size |-> 0, msg_ref_bits_size |-> 0,
     instructions |-> <<>>, hash_to_message_index |-> <<>>]

\* A builder that treats a repeated digest as already handled and appends
\* nothing for it.
AppendOnlySkipped(msg, inst) == msg

\* A builder whose message references name their own position.
AppendOnlySelfReference(msg, inst) ==
    [msg EXCEPT !.instructions =
        Append(@, [inst EXCEPT !.data = to_bytes(Len(msg.instructions), 1)])]

\* message.instructions.append(inst), without recording the digest.
AppendOnly(msg, inst) ==
    [msg EXCEPT !.instructions = Append(@, inst)]

\* A builder that records len(message.instructions) instead of
\* len(message.instructions) - 1.
AppendAndRecordLength(msg, inst, hash) ==
    [msg EXCEPT !.instructions = Append(@, inst),
                !.hash_to_message_index =
                    IF hash \in DOMAIN @
                    THEN [@ EXCEPT ![hash] = Len(msg.instructions) + 1]
                    ELSE @ @@ (hash :> Len(msg.instructions) + 1)]

\* message.instructions.append(inst);
\* message.hash_to_message_index[hash] = len(message.instructions) - 1
AppendAndRecord(msg, inst, hash) ==
    [msg EXCEPT !.instructions = Append(@, inst),
                !.hash_to_message_index =
                    IF hash \in DOMAIN @
                    THEN [@ EXCEPT ![hash] = Len(msg.instructions)]
                    ELSE @ @@ (hash :> Len(msg.instructions))]

\* A builder that records the digest's message index for every kind, a
\* MessageReference included.
process_changed_block_recording(index, hash, hashes_on_disk, target, block_size, known_hashes, msg) ==
    IF hash \in DOMAIN msg.hash_to_message_index
    THEN LET msg_index    == msg.hash_to_message_index[hash]
             bytes_needed == (get_index_bits_size(msg_index) + 7) \div 8
         IN [err |-> "none",
             message |-> AppendAndRecord(msg,
                 Instruction(index, "MessageReference",
                             to_bytes(msg_index, bytes_needed)), hash)]
    ELSE IF Len(get_indexes_by_hash(hashes_on_disk, hash)) > 0
    THEN LET ref          == get_indexes_by_hash(hashes_on_disk, hash)[1][1]
             bytes_needed == (get_index_bits_size(ref) + 7) \div 8
         IN [err |-> "none",
             message |-> AppendAndRecord(msg,
                 Instruction(index, "DiskReference",
                             to_bytes(ref, bytes_needed)), hash)]
    ELSE IF contains_hash(known_hashes, hash)
    THEN [err |-> "KeyError", message |-> msg]
    ELSE [err |-> "none",
          message |-> AppendAndRecord(msg,
              Instruction(index, "Literal",
                          literal_by_index(target, block_size, index)), hash)]

\* MessageBuilder.process_changed_block: [err, message].
process_changed_block(index, hash, hashes_on_disk, target, block_size, known_hashes, msg) ==
    IF hash \in DOMAIN msg.hash_to_message_index
    THEN LET msg_index    == msg.hash_to_message_index[hash]
             bytes_needed == (get_index_bits_size(msg_index) + 7) \div 8
         IN [err |-> "none",
             message |-> AppendOnly(msg,
                 Instruction(index, "MessageReference",
                             to_bytes(msg_index, bytes_needed)))]
    ELSE IF Len(get_indexes_by_hash(hashes_on_disk, hash)) > 0
    THEN LET ref          == get_indexes_by_hash(hashes_on_disk, hash)[1][1]
             bytes_needed == (get_index_bits_size(ref) + 7) \div 8
         IN [err |-> "none",
             message |-> AppendAndRecord(msg,
                 Instruction(index, "DiskReference",
                             to_bytes(ref, bytes_needed)), hash)]
    ELSE IF contains_hash(known_hashes, hash)
    \* digest = message.hash_to_message_index[hash]: the key is absent here
    \* (the first branch was not taken), so the lookup raises KeyError.
    THEN [err |-> "KeyError", message |-> msg]
    ELSE [err |-> "none",
          message |-> AppendAndRecord(msg,
              Instruction(index, "Literal",
                          literal_by_index(target, block_size, index)), hash)]

\* -------------------------------------------------------------- Serializer
\* Instruction.to_bitarray
to_bitarray(inst, disk_index_bits, disk_ref_bits, msg_ref_bits) ==
    FormatBits(inst.disk_index, disk_index_bits) \o
    CASE inst.data_type = "Literal" -> <<0, 0>> \o frombytes(inst.data)
      [] inst.data_type = "Hash" -> <<0, 1>> \o frombytes(inst.data)
      [] inst.data_type = "DiskReference" ->
            <<1, 0>> \o FormatBits(from_bytes(inst.data), disk_ref_bits)
      [] inst.data_type = "MessageReference" ->
            <<1, 1>> \o FormatBits(from_bytes(inst.data), msg_ref_bits)

\* The writer after the first k instructions of msg have been written.
RECURSIVE write_instructions(_, _, _)
write_instructions(w, msg, k) ==
    IF k = 0 THEN w
    ELSE BitWriter_write(write_instructions(w, msg, k - 1),
                         to_bitarray(msg.instructions[k],
                                     msg.changed_block_index_size,
                                     msg.disk_ref_bits_size,
                                     msg.msg_ref_bits_size))

\* The width Message.write_bits_to_file gives the two header fields.
WriterHeaderWidth(msg) == msg.header_bits_size

\* Message.write_bits_to_file: [err, file].
write_bits_to_file(msg) ==
    LET w1 == BitWriter_write(NewWriter,
                  FormatBits(msg.disk_ref_bits_size, WriterHeaderWidth(msg)))
        w2 == BitWriter_write(w1,
                  FormatBits(msg.msg_ref_bits_size, WriterHeaderWidth(msg)))
        w3 == write_instructions(w2, msg, Len(msg.instructions))
    IN [err |-> w3.err, file |-> BitWriter_close(w3)]

\* ------------------------------------------------------------ Deserializer
\* DeltaDecoder.get_message_from_bits: the image size handed to the
\* MessageBuilder that decodes (IndexHashMapper.image_size: bytes).
DecoderImageSize(image, size) == Len(image)

\* MessageBuilder.get_message_from_bits up to the point where it stops:
\* [err, message].  The header is read; creating the Hasher then reads
\* known_blocks_store.digest_size, an attribute BlockHashStore does not have
\* (it has digest_size_bits), which raises AttributeError before the first
\* instruction is read.
get_message_from_bits(file, dec_image_size) ==
    LET header_size == get_index_bits_size(dec_image_size - 1)
        m0 == [EmptyMessage EXCEPT
                  !.header_bits_size = header_size,
                  !.changed_block_index_size =
                      get_index_bits_size(dec_image_size - 1)]
        ref_bits(bits) == IF BitsToInt(bits) = 0 THEN 1 ELSE BitsToInt(bits)
        second(a, b) ==
            IF b.status # "ok" THEN [err |-> "ValueError", message |-> m0]
            ELSE [err |-> "AttributeError",
                  message |-> [m0 EXCEPT !.disk_ref_bits_size = ref_bits(a.bits),
                                         !.msg_ref_bits_size = ref_bits(b.bits)]]
        first(a) ==
            IF a.status # "ok" THEN [err |-> "ValueError", message |-> m0]
            ELSE Bind(LAMBDA b : second(a, b), BitReader_read(a.r, header_size))
    IN Bind(LAMBDA a : first(a), BitReader_read(NewReader(file), header_size))

\* DataType(int(bits.to01(), 2))
DataTypeOf(code) ==
    CASE code = 0 -> "Literal"
      [] code = 1 -> "Hash"
      [] code = 2 -> "DiskReference"
      [] code = 3 -> "MessageReference"

\* MessageBuilder.get_data_by_type: [status, bits, data, r], bits being the
\* payload bits taken from the reader.  status "None" is the None it returns
\* at the end of input.  The Hash case reads known_blocks_store.digest_size,
\* an attribute BlockHashStore does not have (it has digest_size_bits).
get_data_by_type(f, data_type, disk_ref_bits, msg_ref_bits, size) ==
    LET ref_bytes(index) == to_bytes(index, (get_index_bits_size(index) + 7) \div 8)
        result(rd, data) ==
            [status |-> rd.status, bits |-> rd.bits, r |-> rd.r,
             data |-> IF rd.status = "ok" THEN data ELSE <<>>]
    IN CASE data_type = "Literal" ->
              Bind(LAMBDA rd : result(rd, tobytes(rd.bits)),
                   BitReader_read(f, size * 8))
         [] data_type = "Hash" ->
              [status |-> "AttributeError", bits |-> <<>>, r |-> f, data |-> <<>>]
         [] data_type = "DiskReference" ->
              Bind(LAMBDA rd : result(rd, ref_bytes(BitsToInt(rd.bits))),
                   BitReader_read(f, disk_ref_bits))
         [] data_type = "MessageReference" ->
              Bind(LAMBDA rd : result(rd, ref_bytes(BitsToInt(rd.bits))),
                   BitReader_read(f, msg_ref_bits))

\* One pass of the loop of get_message_from_bits on the reader f: the block
\* index, the kind, then the payload.  [status, bits, data, r, inst].
read_instruction(f, msg, size) ==
    LET payload(index, kind) ==
            Bind(LAMBDA d : d @@ [inst |-> Instruction(BitsToInt(index.bits),
                                              DataTypeOf(BitsToInt(kind.bits)), d.data)],
                 get_data_by_type(kind.r, DataTypeOf(BitsToInt(kind.bits)),
                                  msg.disk_ref_bits_size, msg.msg_ref_bits_size, size))
        stop(rd) ==
            [status |-> rd.status, bits |-> <<>>, data |-> <<>>, r |-> rd.r,
             inst |-> Instruction(0, "Literal", <<>>)]
        kind_of(index) ==
            Bind(LAMBDA kind : IF kind.status # "ok" THEN stop(kind)
                               ELSE payload(index, kind),
                 BitReader_read(index.r, 2))
    IN Bind(LAMBDA index : IF index.status # "ok" THEN stop(index)
                           ELSE kind_of(index),
            BitReader_read(f, msg.changed_block_index_size))

\* ----------------------------------------------------------------- Applier
\* list.index(x) as a 0-based position, or -1 when x is absent.
IndexOf(list, x) ==
    IF x \in Range(list)
    THEN (CHOOSE i \in 1..Len(list) :
             list[i] = x /\ \A j \in 1..(i - 1) : list[j] # x) - 1
    ELSE -1

\* A store that looks a digest up from the end of its list.
get_data_by_hash_last(hash_list, file, size, digest_bits, hash) ==
    LET index == Len(hash_list) - 1
        dl    == CeilDiv(digest_bits, 8)
        off   == index * (size + dl) + dl
    IN IF hash \notin Range(hash_list) THEN [err |-> "ValueError", data |-> <<>>]
       ELSE [err |-> "none", data |-> Slice(file, off, off + size)]

\* BlockHashStore.get_data_by_hash: [err, data].
get_data_by_hash(hash_list, file, size, digest_bits, hash) ==
    LET index == IndexOf(hash_list, hash)
        dl    == CeilDiv(digest_bits, 8)
        off   == index * (size + dl) + dl
    IN IF index < 0 THEN [err |-> "ValueError", data |-> <<>>]
       ELSE [err |-> "none", data |-> Slice(file, off, off + size)]

\* DiskDelta.get_literal_from_instruction: [err, data].
RECURSIVE get_literal_from_instruction(_, _, _, _, _, _, _)
get_literal_from_instruction(inst, msg, image, size, hash_list, file, digest_bits) ==
    CASE inst.data_type = "Literal" -> [err |-> "none", data |-> inst.data]
      [] inst.data_type = "Hash" ->
            get_data_by_hash(hash_list, file, size, digest_bits, inst.data)
      [] inst.data_type = "DiskReference" ->
            [err |-> "none",
             data |-> literal_by_index(image, size, from_bytes(inst.data))]
      [] inst.data_type = "MessageReference" ->
            LET msg_index == from_bytes(inst.data)
            IN IF msg_index >= Len(msg.instructions)
               THEN [err |-> "IndexError", data |-> <<>>]
               ELSE get_literal_from_instruction(msg.instructions[msg_index + 1],
                        msg, image, size, hash_list, file, digest_bits)

\* A write that pushes the bytes after the offset back instead of replacing
\* them.
WriteAt_insert(out, offset, data) == Take(out, offset) \o data \o Drop(out, offset)

\* out.seek(offset); out.write(data): a write past the end pads with zeros.
WriteAt(out, offset, data) ==
    LET padded == IF offset > Len(out) THEN out \o Zeros(offset - Len(out)) ELSE out
    IN Take(padded, offset) \o data \o Drop(padded, offset + Len(data))

\* An applier that resolves disk references in the output file as written
\* so far.
RECURSIVE apply_upto_in_place(_, _, _, _, _, _, _)
apply_upto_in_place(msg, k, image, size, hash_list, file, digest_bits) ==
    IF k = 0 THEN [err |-> "none", out |-> image]
    ELSE LET before == apply_upto_in_place(msg, k - 1, image, size, hash_list,
                                           file, digest_bits)
             inst   == msg.instructions[k]
             lit    == get_literal_from_instruction(inst, msg, before.out, size,
                           hash_list, file, digest_bits)
         IN IF before.err # "none" THEN before
            ELSE IF lit.err # "none" THEN [err |-> lit.err, out |-> before.out]
            ELSE [err |-> "none",
                  out |-> WriteAt(before.out, inst.disk_index * size, lit.data)]

\* The output after the first k instructions of msg have been applied.
RECURSIVE apply_upto(_, _, _, _, _, _, _)
apply_upto(msg, k, image, size, hash_list, file, digest_bits) ==
    IF k = 0 THEN [err |-> "none", out |-> image]
    ELSE LET before == apply_upto(msg, k - 1, image, size, hash_list, file,
                                  digest_bits)
             inst   == msg.instructions[k]
             lit    == get_literal_from_instruction(inst, msg, image, size,
                           hash_list, file, digest_bits)
         IN IF before.err # "none" THEN before
            ELSE IF lit.err # "none" THEN [err |-> lit.err, out |-> before.out]
            ELSE [err |-> "none",
                  out |-> WriteAt(before.out, inst.disk_index * size, lit.data)]

\* DiskDelta.apply_message: [err, out].
apply_message(msg, image, size, hash_list, file, digest_bits) ==
    apply_upto(msg, Len(msg.instructions), image, size, hash_list, file,
               digest_bits)

\* ------------------------------------------------------------------- state
VARIABLES
    block_size,        \* B, bytes per block
    digest_size,       \* D, bits per digest
    initial_image,     \* the bytes of I
    target_image,      \* the bytes of T
    indexes_by_hash,   \* IndexHashMapper of I: digest -> run list
    hashes0,           \* BlockHashStore.hashes as loaded when the run started
    store_file0,       \* the store's backing file when the run started
    hashes,            \* BlockHashStore.hashes
    store_file,        \* the store's backing file
    image_size,        \* MessageBuilder.image_size of the sender, in blocks
    disk_index,        \* build_message's loop counter
    greatest_disk_ref,
    greatest_msg_ref,
    message,           \* the sender's message: being built, then built
    bit_file,          \* the delta file written by write_bits_to_file
    decoder,           \* the message get_message_from_bits fills in
    received,          \* TRUE when get_message_from_bits returned a message
    output,            \* the file apply_message writes
    pc,                \* "build", "built", "written", "decoded", "applied",
                       \* or "<operation>_failed" when that operation raised
    error,             \* the exception that ended the run, or "none"
    \* a BitWriter and a BitReader used on their own
    bpc,               \* "off", "writing", "closed", "reading"
    writer,            \* the BitWriter
    written,           \* all bits passed to write, in order
    nwrites,           \* number of write calls
    wrote_empty,       \* TRUE when some write call passed no bits
    file_bytes,        \* the file after the writer is closed
    reader,            \* the BitReader
    got,               \* all bits returned by read, in order
    nreads,            \* number of read calls
    requested,         \* total number of bits asked of read
    last_read,         \* status of the last read: "ok", "None", "ValueError"
    \* a BlockHashStore used on its own
    calls,             \* the add calls that returned, in order: [hash, data]
    prev,              \* [hashes, file] as they were before the last add
    fetched,           \* the last get_data_by_hash: [hash, err, data]
    last_op            \* "none", "add", "add_raised", "get", "load"

vars == <<block_size, digest_size, initial_image, target_image,
          indexes_by_hash, hashes0, store_file0, hashes, store_file, image_size,
          disk_index,
          greatest_disk_ref, greatest_msg_ref, message, bit_file, decoder,
          received, output, pc, error,
          bpc, writer, written, nwrites, wrote_empty, file_bytes, reader, got,
          nreads, requested, last_read, calls, prev, fetched, last_op>>

params == <<block_size, digest_size, initial_image, target_image,
            indexes_by_hash, hashes0, store_file0, image_size>>
builder == <<disk_index, greatest_disk_ref, greatest_msg_ref>>
store == <<hashes, store_file>>
receiver == <<bit_file, decoder, received, output>>
bitio == <<bpc, writer, written, nwrites, wrote_empty, file_bytes, reader, got,
           nreads, requested, last_read>>
pipeline == <<params, builder, store, receiver, message, pc, error>>
storeio == <<calls, prev, fetched, last_op>>

\* The block of `size` bytes filled with byte v.
Block(v, size) == [i \in 1..size |-> v]

\* All images of n blocks of `size` bytes.
RECURSIVE Images(_, _)
Images(n, size) ==
    IF n = 0 THEN {<<>>}
    ELSE {Block(v, size) \o rest : v \in FillBytes, rest \in Images(n - 1, size)}

\* The backing files a store holds when a run starts: empty, or one record
\* written by an earlier run's add(hash(block), block).
StoreFiles(size, bits) ==
    {<<>>} \cup {Hash(Block(v, size), bits) \o Block(v, size) : v \in FillBytes}

\* The bit stream objects before any is opened.
BitIoOff ==
    /\ bpc = "off"
    /\ writer = NewWriter
    /\ written = <<>>
    /\ nwrites = 0
    /\ wrote_empty = FALSE
    /\ file_bytes = <<>>
    /\ reader = NewReader(<<>>)
    /\ got = <<>>
    /\ nreads = 0
    /\ requested = 0
    /\ last_read = "ok"

\* No call has been made on a store used on its own.
StoreIoOff ==
    /\ calls = <<>>
    /\ prev = [hashes |-> <<>>, file |-> <<>>]
    /\ fetched = [hash |-> <<>>, err |-> "none", data |-> <<>>]
    /\ last_op = "none"

\* DiskDelta.__init__ on two images of equal length, a whole number of blocks.
Init ==
    /\ BitIoOff
    /\ StoreIoOff
    /\ block_size \in BlockSizes
    /\ digest_size \in DigestSizes
    /\ \E n \in 1..MaxBlocks :
          /\ initial_image \in Images(n, block_size)
          /\ target_image \in Images(n, block_size)
    /\ indexes_by_hash = load(initial_image, block_size, digest_size)
    /\ store_file \in StoreFiles(block_size, digest_size)
    /\ hashes = store_load(store_file, block_size, digest_size)
    /\ hashes0 = hashes
    /\ store_file0 = store_file
    /\ image_size = Len(initial_image) \div block_size
    /\ disk_index = 0
    /\ greatest_disk_ref = 0
    /\ greatest_msg_ref = 0
    /\ message = EmptyMessage
    /\ bit_file = <<>>
    /\ decoder = EmptyMessage
    /\ received = FALSE
    /\ output = <<>>
    /\ pc = "build"
    /\ error = "none"

\* The digests build_message compares at block i.
initial_hash_at(i) == get_hash_by_index(initial_image, block_size, digest_size, i)
updated_hash_at(i) == get_hash_by_index(target_image, block_size, digest_size, i)

\* A builder that processes every block.
BlockChangedAlways(i) == TRUE

\* if initial_hash != updated_hash
BlockChanged(i) == initial_hash_at(i) # updated_hash_at(i)

\* One iteration of build_message's loop.
BuildStep ==
    /\ pc = "build"
    /\ disk_index < image_size
    /\ Len(initial_hash_at(disk_index)) > 0
    /\ IF BlockChanged(disk_index)
       THEN LET r == process_changed_block(disk_index, updated_hash_at(disk_index),
                         indexes_by_hash, target_image, block_size, hashes, message)
                a == store_add(hashes, store_file, digest_size,
                         updated_hash_at(disk_index),
                         literal_by_index(target_image, block_size, disk_index))
                inst == r.message.instructions[Len(r.message.instructions)]
            IN IF r.err # "none"
               THEN /\ pc' = "build_failed"
                    /\ error' = r.err
                    /\ UNCHANGED <<message, hashes, store_file, disk_index,
                                   greatest_disk_ref, greatest_msg_ref, calls>>
               ELSE IF a.err # "none"
               THEN /\ pc' = "build_failed"
                    /\ error' = a.err
                    /\ message' = r.message
                    /\ UNCHANGED <<hashes, store_file, disk_index,
                                   greatest_disk_ref, greatest_msg_ref, calls>>
               ELSE /\ message' = r.message
                    /\ hashes' = a.hashes
                    /\ store_file' = a.file
                    /\ greatest_disk_ref' =
                          IF inst.data_type = "DiskReference"
                          THEN Max(greatest_disk_ref, from_bytes(inst.data))
                          ELSE greatest_disk_ref
                    /\ greatest_msg_ref' =
                          IF inst.data_type = "MessageReference"
                          THEN Max(greatest_msg_ref, from_bytes(inst.data))
                          ELSE greatest_msg_ref
                    /\ disk_index' = disk_index + 1
                    /\ calls' = Append(calls,
                          [hash |-> updated_hash_at(disk_index),
                           data |-> literal_by_index(target_image, block_size,
                                                     disk_index)])
                    /\ UNCHANGED <<pc, error>>
       ELSE /\ disk_index' = disk_index + 1
            /\ UNCHANGED <<message, hashes, store_file, greatest_disk_ref,
                           greatest_msg_ref, pc, error, calls>>
    /\ UNCHANGED <<params, receiver, bitio, prev, fetched, last_op>>

\* The end of build_message: the four widths.
BuildFinish ==
    /\ pc = "build"
    /\ ~(disk_index < image_size /\ Len(initial_hash_at(disk_index)) > 0)
    /\ message' = [message EXCEPT
          !.header_bits_size = get_index_bits_size(image_size),
          !.disk_ref_bits_size = get_index_bits_size(greatest_disk_ref),
          !.msg_ref_bits_size = get_index_bits_size(greatest_msg_ref),
          !.changed_block_index_size = get_index_bits_size(disk_index - 1)]
    /\ pc' = "built"
    /\ UNCHANGED <<params, store, builder, receiver, error, bitio, storeio>>

\* DiskDelta.write_message_to_file
WriteBits ==
    /\ pc = "built"
    /\ LET r == write_bits_to_file(message)
       IN IF r.err # "none"
          THEN pc' = "write_failed" /\ error' = r.err /\ UNCHANGED bit_file
          ELSE pc' = "written" /\ bit_file' = r.file /\ UNCHANGED error
    /\ UNCHANGED <<params, store, builder, message, decoder, received, output,
                   bitio, storeio>>

\* DeltaDecoder.get_message_from_bits on the written file.
Decode ==
    /\ pc = "written"
    /\ LET r == get_message_from_bits(bit_file,
                    DecoderImageSize(initial_image, block_size))
       IN /\ decoder' = r.message
          /\ IF r.err # "none"
             THEN pc' = "decode_failed" /\ error' = r.err /\ UNCHANGED received
             ELSE pc' = "decoded" /\ received' = TRUE /\ UNCHANGED error
    /\ UNCHANGED <<params, store, builder, message, bit_file, output, bitio, storeio>>

\* DiskDelta.apply_message on the message the DiskDelta holds: the decoded
\* one at the receiver, its own at the sender.
Apply ==
    /\ pc \in {"written", "decoded"}
    /\ LET r == apply_message(IF received THEN decoder ELSE message,
                              initial_image, block_size, hashes, store_file,
                              digest_size)
       IN /\ output' = r.out
          /\ IF r.err # "none"
             THEN pc' = "apply_failed" /\ error' = r.err
             ELSE pc' = "applied" /\ UNCHANGED error
    /\ UNCHANGED <<params, store, builder, message, bit_file, decoder, received,
                   bitio, storeio>>

Next == BuildStep \/ BuildFinish \/ WriteBits \/ Decode \/ Apply

Spec == Init /\ [][Next]_vars

\* ------------------------------------------- bit streams on their own
\* Longest total bit string written, and the number of write and read calls.
MaxBits == 9
MaxWrites == 2
MaxReads == 2

\* All bit arrays of exactly n bits, and of at most n bits.
RECURSIVE BitsOfLen(_)
BitsOfLen(n) ==
    IF n = 0 THEN {<<>>}
    ELSE {<<b>> \o rest : b \in {0, 1}, rest \in BitsOfLen(n - 1)}
BitsUpTo(n) == UNION {BitsOfLen(k) : k \in 0..n}

\* A writer is opened on a new file; no pipeline runs.
BitInit ==
    /\ bpc = "writing"
    /\ writer = NewWriter
    /\ written = <<>>
    /\ nwrites = 0
    /\ wrote_empty = FALSE
    /\ file_bytes = <<>>
    /\ reader = NewReader(<<>>)
    /\ got = <<>>
    /\ nreads = 0
    /\ requested = 0
    /\ last_read = "ok"
    /\ block_size = 1
    /\ digest_size = 8
    /\ initial_image = <<>>
    /\ target_image = <<>>
    /\ indexes_by_hash = <<>>
    /\ hashes0 = <<>>
    /\ store_file0 = <<>>
    /\ hashes = <<>>
    /\ store_file = <<>>
    /\ image_size = 0
    /\ disk_index = 0
    /\ greatest_disk_ref = 0
    /\ greatest_msg_ref = 0
    /\ message = EmptyMessage
    /\ bit_file = <<>>
    /\ decoder = EmptyMessage
    /\ received = FALSE
    /\ output = <<>>
    /\ pc = "off"
    /\ error = "none"
    /\ StoreIoOff

\* BitWriter.write(bits)
BW_Write ==
    /\ bpc = "writing"
    /\ writer.err = "none"
    /\ nwrites < MaxWrites
    /\ \E bits \in BitsUpTo(MaxBits - Len(written)) :
          /\ writer' = BitWriter_write(writer, bits)
          /\ written' = written \o bits
          /\ wrote_empty' = (wrote_empty \/ bits = <<>>)
    /\ nwrites' = nwrites + 1
    /\ UNCHANGED <<bpc, file_bytes, reader, got, nreads, requested, last_read,
                   pipeline, storeio>>

\* BitWriter.__exit__
BW_Close ==
    /\ bpc = "writing"
    /\ writer.err = "none"
    /\ file_bytes' = BitWriter_close(writer)
    /\ bpc' = "closed"
    /\ UNCHANGED <<writer, written, nwrites, wrote_empty, reader, got, nreads,
                   requested, last_read, pipeline, storeio>>

\* bitbuffer.open(path, "r")
BR_Open ==
    /\ bpc = "closed"
    /\ reader' = NewReader(file_bytes)
    /\ bpc' = "reading"
    /\ UNCHANGED <<writer, written, nwrites, wrote_empty, file_bytes, got,
                   nreads, requested, last_read, pipeline, storeio>>

\* BitReader.read(n)
BR_Read ==
    /\ bpc = "reading"
    /\ last_read = "ok"
    /\ nreads < MaxReads
    /\ \E n \in 0..MaxBits :
          LET r == BitReader_read(reader, n)
          IN /\ reader' = r.r
             /\ last_read' = r.status
             /\ got' = IF r.status = "ok" THEN got \o r.bits ELSE got
             /\ requested' = requested + n
    /\ nreads' = nreads + 1
    /\ UNCHANGED <<bpc, writer, written, nwrites, wrote_empty, file_bytes,
                   pipeline, storeio>>

BitNext == BW_Write \/ BW_Close \/ BR_Open \/ BR_Read

BitSpec == BitInit /\ [][BitNext]_vars

\* ------------------------------------------- a block hash store on its own
\* Number of add calls, and the bytes digests passed to add are made of.
MaxAdds == 3
DigestBytes == {0, 64}

\* The digests passed to add and get_data_by_hash: one or two bytes, so that
\* some have the length ceil(D/8) and some have not.
StoreDigests ==
    {<<a>> : a \in DigestBytes} \cup {<<a, b>> : a \in DigestBytes, b \in DigestBytes}

\* BlockHashStore(B, D) on a backing file that does not exist yet.
StoreInit ==
    /\ StoreIoOff
    /\ BitIoOff
    /\ block_size \in BlockSizes
    /\ digest_size \in DigestSizes
    /\ store_file = <<>>
    /\ hashes = store_load(store_file, block_size, digest_size)
    /\ hashes0 = hashes
    /\ store_file0 = store_file
    /\ initial_image = <<>>
    /\ target_image = <<>>
    /\ indexes_by_hash = <<>>
    /\ image_size = 0
    /\ disk_index = 0
    /\ greatest_disk_ref = 0
    /\ greatest_msg_ref = 0
    /\ message = EmptyMessage
    /\ bit_file = <<>>
    /\ decoder = EmptyMessage
    /\ received = FALSE
    /\ output = <<>>
    /\ pc = "off"
    /\ error = "none"

\* BlockHashStore.add(hash, data) with a B-byte literal
St_Add ==
    /\ Len(calls) < MaxAdds
    /\ \E hash \in StoreDigests, v \in FillBytes :
          LET data == Block(v, block_size)
              r    == store_add(hashes, store_file, digest_size, hash, data)
          IN /\ hashes' = r.hashes
             /\ store_file' = r.file
             /\ IF r.err = "none"
                THEN /\ calls' = Append(calls, [hash |-> hash, data |-> data])
                     /\ last_op' = "add"
                ELSE /\ calls' = calls
                     /\ last_op' = "add_raised"
    /\ prev' = [hashes |-> hashes, file |-> store_file]
    /\ UNCHANGED <<params, builder, receiver, message, pc, error, bitio, fetched>>

\* BlockHashStore.get_data_by_hash(hash)
St_Get ==
    /\ \E hash \in StoreDigests :
          LET r == get_data_by_hash(hashes, store_file, block_size, digest_size,
                                    hash)
          IN fetched' = [hash |-> hash, err |-> r.err, data |-> r.data]
    /\ last_op' = "get"
    /\ UNCHANGED <<params, builder, store, receiver, message, pc, error, bitio,
                   calls, prev>>

\* A new BlockHashStore(B, D) on the same backing file: __init__ and load
St_Load ==
    /\ hashes' = store_load(store_file, block_size, digest_size)
    /\ last_op' = "load"
    /\ UNCHANGED <<params, builder, store_file, receiver, message, pc, error,
                   bitio, calls, prev, fetched>>

StoreNext == St_Add \/ St_Get \/ St_Load

StoreSpec == StoreInit /\ [][StoreNext]_vars

\* --------------------------------------- the coordinator's construction
\* Longest image handed to the constructor, in whole blocks.
MaxCtorBlocks == 2

\* Image files of any length: whole blocks, then possibly part of a block.
AnyImages(size) ==
    {img \o Take(Block(v, size), k) :
        img \in UNION {Images(n, size) : n \in 0..MaxCtorBlocks},
        v \in FillBytes, k \in 0..(size - 1)}

\* Two image files and a store file exist; DiskDelta(...) has not been called.
CtorInit ==
    /\ BitIoOff
    /\ StoreIoOff
    /\ block_size \in BlockSizes
    /\ digest_size \in DigestSizes
    /\ initial_image \in AnyImages(block_size)
    /\ target_image \in AnyImages(block_size)
    /\ store_file = <<>>
    /\ hashes = <<>>
    /\ hashes0 = <<>>
    /\ store_file0 = <<>>
    /\ indexes_by_hash = <<>>
    /\ image_size = 0
    /\ disk_index = 0
    /\ greatest_disk_ref = 0
    /\ greatest_msg_ref = 0
    /\ message = EmptyMessage
    /\ bit_file = <<>>
    /\ decoder = EmptyMessage
    /\ received = FALSE
    /\ output = <<>>
    /\ pc = "new"
    /\ error = "none"

\* DiskDelta.__init__, and the MessageBuilder that DiskDelta.build_message
\* constructs with int(image_size / block_size).
Construct ==
    /\ pc = "new"
    /\ hashes' = store_load(store_file, block_size, digest_size)
    /\ hashes0' = hashes'
    /\ store_file0' = store_file
    /\ IF Len(initial_image) # Len(target_image)
       THEN /\ pc' = "init_failed"
            /\ error' = "ValueError"
            /\ UNCHANGED <<indexes_by_hash, image_size>>
       ELSE /\ pc' = "build"
            /\ indexes_by_hash' = load(initial_image, block_size, digest_size)
            /\ image_size' = Len(initial_image) \div block_size
            /\ UNCHANGED error
    /\ UNCHANGED <<block_size, digest_size, initial_image, target_image,
                   store_file, builder, receiver, message, bitio, storeio>>

CtorNext == Construct \/ Next

CtorSpec == CtorInit /\ [][CtorNext]_vars

\* ------------------------------------------ a delta file that arrives short
\* The delta file loses its last bytes before the receiver opens it.
Truncate ==
    /\ pc = "written"
    /\ bit_file = write_bits_to_file(message).file
    /\ \E n \in 0..(Len(bit_file) - 1) : bit_file' = Take(bit_file, n)
    /\ UNCHANGED <<params, store, builder, message, decoder, received, output,
                   pc, error, bitio, storeio>>

TruncNext == Next \/ Truncate

TruncSpec == Init /\ [][TruncNext]_vars

\* ------------------------------------------- one instruction on the wire
\* The widest reference field tried.
MaxRefBits == 2

\* The instructions of each kind for an image of n blocks of `size` bytes.
InstructionsOfKind(n, size, digest_bits) ==
    LET ref_bytes(v) == to_bytes(v, (get_index_bits_size(v) + 7) \div 8)
    IN {Instruction(i, "Literal", Block(v, size)) :
            i \in 0..(n - 1), v \in FillBytes}
       \cup {Instruction(i, "Hash", Hash(Block(v, size), digest_bits)) :
            i \in 0..(n - 1), v \in FillBytes}
       \cup {Instruction(i, k, ref_bytes(v)) :
            i \in 0..(n - 1), k \in {"DiskReference", "MessageReference"},
            v \in 0..(n - 1)}

\* A message that holds one instruction, with widths wide enough for it.
PayloadInit ==
    /\ BitIoOff
    /\ StoreIoOff
    /\ block_size \in BlockSizes
    /\ digest_size \in DigestSizes
    /\ \E n \in 1..MaxBlocks :
          /\ initial_image \in Images(n, block_size)
          /\ \E inst \in InstructionsOfKind(n, block_size, digest_size),
                d \in 1..MaxRefBits, m \in 1..MaxRefBits :
                /\ inst.data_type = "DiskReference" => from_bytes(inst.data) < Pow2(d)
                /\ inst.data_type = "MessageReference" => from_bytes(inst.data) < Pow2(m)
                /\ message = [EmptyMessage EXCEPT
                      !.header_bits_size = get_index_bits_size(n),
                      !.changed_block_index_size = get_index_bits_size(n - 1),
                      !.disk_ref_bits_size = d,
                      !.msg_ref_bits_size = m,
                      !.instructions = <<inst>>]
    /\ target_image = initial_image
    /\ indexes_by_hash = load(initial_image, block_size, digest_size)
    /\ store_file = <<>>
    /\ hashes = <<>>
    /\ hashes0 = <<>>
    /\ store_file0 = <<>>
    /\ image_size = Len(initial_image) \div block_size
    /\ disk_index = 0
    /\ greatest_disk_ref = 0
    /\ greatest_msg_ref = 0
    /\ bit_file = <<>>
    /\ decoder = EmptyMessage
    /\ received = FALSE
    /\ output = <<>>
    /\ pc = "payload_new"
    /\ error = "none"

\* f.write(instruction.to_bitarray(...)) on a fresh file, then close.
SerializeInstruction ==
    /\ pc = "payload_new"
    /\ LET bits == to_bitarray(message.instructions[1],
                       message.changed_block_index_size,
                       message.disk_ref_bits_size, message.msg_ref_bits_size)
       IN /\ writer' = BitWriter_write(NewWriter, bits)
          /\ written' = Drop(bits, message.changed_block_index_size + 2)
    /\ file_bytes' = BitWriter_close(writer')
    /\ pc' = "payload_written"
    /\ UNCHANGED <<params, store, builder, message, bit_file, decoder, received,
                   output, error, bpc, nwrites, wrote_empty, reader, got, nreads,
                   requested, last_read, storeio>>

\* The loop body of get_message_from_bits on that file.
ReadInstruction ==
    /\ pc = "payload_written"
    /\ LET d == read_instruction(NewReader(file_bytes),
                    [decoder EXCEPT
                        !.changed_block_index_size = message.changed_block_index_size,
                        !.disk_ref_bits_size = message.disk_ref_bits_size,
                        !.msg_ref_bits_size = message.msg_ref_bits_size],
                    block_size)
       IN /\ reader' = d.r
          /\ got' = d.bits
          /\ last_read' = d.status
          /\ error' = IF d.status \in {"ok", "None"} THEN "none" ELSE d.status
          /\ decoder' = IF d.status = "ok"
                        THEN [decoder EXCEPT !.instructions = Append(@, d.inst)]
                        ELSE decoder
    /\ pc' = "payload_read"
    /\ UNCHANGED <<params, store, builder, message, bit_file, received, output,
                   bpc, writer, written, nwrites, wrote_empty, file_bytes, nreads,
                   requested, storeio>>

PayloadNext == SerializeInstruction \/ ReadInstruction

PayloadSpec == PayloadInit /\ [][PayloadNext]_vars

\* ------------------------------------- applying a message of any shape
\* Longest image, in blocks, and longest message, in instructions.
MaxApplyBlocks == 2
MaxInstructions == 2

\* The instructions that can stand at message index k (0-based) for an image
\* of n blocks: any target block, a B-byte literal, the digest of a block, a
\* block of I, or an earlier instruction.
InstructionsAtIndex(k, n, size, digest_bits) ==
    LET ref_bytes(v) == to_bytes(v, (get_index_bits_size(v) + 7) \div 8)
    IN {Instruction(i, "Literal", Block(v, size)) :
            i \in 0..(n - 1), v \in FillBytes}
       \cup {Instruction(i, "Hash", Hash(Block(65, size), digest_bits)) :
            i \in 0..(n - 1)}
       \cup {Instruction(i, "DiskReference", ref_bytes(j)) :
            i \in 0..(n - 1), j \in 0..(n - 1)}
       \cup {Instruction(i, "MessageReference", ref_bytes(j)) :
            i \in 0..(n - 1), j \in 0..(k - 1)}

\* All instruction lists of exactly len instructions.
RECURSIVE InstructionLists(_, _, _, _)
InstructionLists(len, n, size, digest_bits) ==
    IF len = 0 THEN {<<>>}
    ELSE {Append(list, inst) :
            list \in InstructionLists(len - 1, n, size, digest_bits),
            inst \in InstructionsAtIndex(len - 1, n, size, digest_bits)}

\* A DiskDelta that holds a message of any shape, ready to be applied to I;
\* the store holds the block the Hash instructions name.
ApplyInit ==
    /\ BitIoOff
    /\ StoreIoOff
    /\ block_size \in BlockSizes
    /\ digest_size \in DigestSizes
    /\ \E n \in 1..MaxApplyBlocks :
          /\ initial_image \in Images(n, block_size)
          /\ \E len \in 0..MaxInstructions :
                \E list \in InstructionLists(len, n, block_size, digest_size) :
                    message = [EmptyMessage EXCEPT
                        !.header_bits_size = get_index_bits_size(n),
                        !.changed_block_index_size = get_index_bits_size(n - 1),
                        !.disk_ref_bits_size = get_index_bits_size(n - 1),
                        !.msg_ref_bits_size = get_index_bits_size(len),
                        !.instructions = list]
    /\ target_image = initial_image
    /\ indexes_by_hash = load(initial_image, block_size, digest_size)
    /\ store_file = Hash(Block(65, block_size), digest_size) \o Block(65, block_size)
    /\ hashes = store_load(store_file, block_size, digest_size)
    /\ hashes0 = hashes
    /\ store_file0 = store_file
    /\ image_size = Len(initial_image) \div block_size
    /\ disk_index = image_size
    /\ greatest_disk_ref = 0
    /\ greatest_msg_ref = 0
    /\ bit_file = <<>>
    /\ decoder = EmptyMessage
    /\ received = FALSE
    /\ output = <<>>
    /\ pc = "written"
    /\ error = "none"

ApplySpec == ApplyInit /\ [][Apply]_vars

\* ------------------------------------------------------------- properties
\* N, the image length in blocks.
NumBlocks == Len(initial_image) \div block_size
BlockIndexes == 0..(NumBlocks - 1)

\* bits(v) = max(1, bit_length(v))
Bits(v) == Max(1, bit_length(v))

\* build_message has returned a message.
BuildDone == pc \in {"built", "written", "decoded", "applied",
                     "write_failed", "decode_failed", "apply_failed"}

\* get_message_from_bits has run (and returned or raised).
DecodeRan == pc \in {"decoded", "decode_failed"} \/ received

\* The B bytes of blocks i of I and of T differ.
LiteralDiffers(i) ==
    literal_by_index(initial_image, block_size, i)
        # literal_by_index(target_image, block_size, i)

\* The positions in the message of the instructions whose disk_index is i.
InstructionsAt(i) ==
    {k \in 1..Len(message.instructions) : message.instructions[k].disk_index = i}

\* The builder has dealt with block i: it went past it, or raised on it.
Processed(i) == i < disk_index \/ (pc = "build_failed" /\ i = disk_index)

\* The target digest of block i was emitted for an earlier changed block.
EmittedEarlier(i) ==
    \E j \in 0..(i - 1) : BlockChanged(j) /\ updated_hash_at(j) = updated_hash_at(i)

\* The target digest of block i occurs in the initial image.
OccursInInitial(i) ==
    \E j \in BlockIndexes : initial_hash_at(j) = updated_hash_at(i)

\* The first applicable kind for changed block i, in the priority order
\* MessageReference, DiskReference, Hash, Literal.  (A digest the store
\* gained during this run was emitted earlier, so for the third rule the
\* store as loaded decides.)
FirstApplicable(i) ==
    IF EmittedEarlier(i) THEN "MessageReference"
    ELSE IF OccursInInitial(i) THEN "DiskReference"
    ELSE IF updated_hash_at(i) \in Range(hashes0) THEN "Hash"
    ELSE "Literal"

\* C1: building the message from (I, T), writing it, deserializing the file
\* and applying the decoded message to a copy of I completes and yields T.
C1_RoundTripFidelity ==
    /\ pc \notin {"build_failed", "write_failed", "decode_failed", "apply_failed"}
    /\ (pc = "applied" /\ received => output = target_image)

\* C2: get_message_from_bits on the file written from a built message does
\* not raise and returns the same instructions.
C2_DecodedEqualsBuilt ==
    /\ pc # "decode_failed"
    /\ (received => decoder.instructions = message.instructions)

\* C3 as stated: every block whose bytes differ between I and T has exactly
\* one instruction in the built message.
C3_OneInstructionPerDifferingBlock ==
    BuildDone =>
        \A i \in BlockIndexes :
            LiteralDiffers(i) => Cardinality(InstructionsAt(i)) = 1

\* C3 as amended: every block whose D-bit digests differ between I and T has
\* exactly one instruction in the built message.
C3_OneInstructionPerChangedDigest ==
    BuildDone =>
        \A i \in BlockIndexes :
            BlockChanged(i) => Cardinality(InstructionsAt(i)) = 1

\* A built message with a reference to an earlier instruction and three
\* changed blocks, each with its one instruction.
C3_Witness ==
    /\ BuildDone
    /\ Cardinality({i \in BlockIndexes : BlockChanged(i)}) = 3
    /\ \E k \in 1..Len(message.instructions) :
          message.instructions[k].data_type = "MessageReference"
    /\ \A i \in BlockIndexes : Cardinality(InstructionsAt(i)) = 1

\* C4: a block whose bytes are equal in I and T never has an instruction;
\* identical images give an empty instruction list.
C4_NoSpuriousInstructions ==
    pc # "off" =>
        /\ \A i \in BlockIndexes : ~LiteralDiffers(i) => InstructionsAt(i) = {}
        /\ (initial_image = target_image => message.instructions = <<>>)

\* A built message with instructions, for images with an unchanged block.
C4_Witness ==
    /\ BuildDone
    /\ Len(message.instructions) = 2
    /\ \E i \in BlockIndexes : ~LiteralDiffers(i) /\ InstructionsAt(i) = {}

\* C5: a MessageReference at message index m carries a payload below m.
C5_BackwardReferencesOnly ==
    \A k \in 1..Len(message.instructions) :
        message.instructions[k].data_type = "MessageReference"
            => from_bytes(message.instructions[k].data) < k - 1

\* A built message whose third instruction refers to its second.
C5_Witness ==
    /\ BuildDone
    /\ Len(message.instructions) = 3
    /\ message.instructions[3].data_type = "MessageReference"
    /\ from_bytes(message.instructions[3].data) = 1

\* C6: for every changed block the builder has dealt with, an instruction of
\* the first applicable kind was emitted.
C6_FirstApplicableKind ==
    \A i \in BlockIndexes :
        Processed(i) /\ BlockChanged(i) =>
            \E k \in InstructionsAt(i) :
                message.instructions[k].data_type = FirstApplicable(i)

\* C7: when Hash is the first applicable kind the builder does not raise
\* and emits a Hash instruction whose payload is the digest.
C7_HashInstructionCarriesDigest ==
    \A i \in BlockIndexes :
        Processed(i) /\ BlockChanged(i) /\ FirstApplicable(i) = "Hash" =>
            /\ pc # "build_failed"
            /\ \E k \in InstructionsAt(i) :
                  /\ message.instructions[k].data_type = "Hash"
                  /\ message.instructions[k].data = updated_hash_at(i)
                  /\ Len(message.instructions[k].data) = CeilDiv(digest_size, 8)

\* C8: the header fields are read with the width they were written with.
C8_HeaderWidthSymmetric ==
    DecodeRan => decoder.header_bits_size = WriterHeaderWidth(message)

\* C9: disk_index is read with the width it was written with, bits(N - 1)
\* for N counted in blocks.
C9_IndexWidthSymmetric ==
    DecodeRan =>
        /\ message.changed_block_index_size = Bits(NumBlocks - 1)
        /\ decoder.changed_block_index_size = message.changed_block_index_size

\* C10: one write of x and a close give a file of ceil(|x|/8) bytes holding
\* x most significant bit first and zero bits after it; reading |x| bits
\* from the reopened file returns x.
C10_WriteCloseRead ==
    /\ (bpc = "writing" /\ nwrites <= 1 => writer.err = "none")
    /\ (bpc \in {"closed", "reading"} /\ nwrites <= 1 =>
          /\ Len(file_bytes) = CeilDiv(Len(written), 8)
          /\ frombytes(file_bytes)
                = written \o Zeros(8 * Len(file_bytes) - Len(written)))
    /\ (bpc = "reading" /\ nwrites <= 1 /\ nreads = 1
            /\ requested = Len(written) =>
          /\ last_read = "ok"
          /\ got = written)

\* Nine bits ending in a one, written at once and read back at once from a
\* two-byte file.
C10_Witness ==
    /\ bpc = "reading"
    /\ nwrites = 1
    /\ nreads = 1
    /\ Len(written) = 9
    /\ written[9] = 1
    /\ requested = 9
    /\ got = written
    /\ Len(file_bytes) = 2

\* The length of one record of the store's backing file.
RecordLen == block_size + CeilDiv(digest_size, 8)

\* The first call add(d, l) that returned, for a digest d that was added.
FirstAdd(d) ==
    calls[CHOOSE k \in 1..Len(calls) :
              calls[k].hash = d /\ \A j \in 1..(k - 1) : calls[j].hash # d]

\* C11: add(d, l) grows the file by B + ceil(D/8) bytes when d was absent,
\* and a second add(d, l) right after it changes neither the digest list nor
\* the file.
C11_AddTwiceIsAddOnce ==
    last_op = "add" =>
        LET c == calls[Len(calls)]
        IN /\ c.hash \notin Range(prev.hashes) =>
                  /\ Len(store_file) = Len(prev.file) + RecordLen
                  /\ hashes = Append(prev.hashes, c.hash)
           /\ c.hash \in Range(prev.hashes) =>
                  /\ hashes = prev.hashes
                  /\ store_file = prev.file
           /\ Len(calls) >= 2 /\ calls[Len(calls) - 1] = c =>
                  /\ hashes = prev.hashes
                  /\ store_file = prev.file

\* The same two-byte digest added twice with the same literal: one record.
C11_Witness ==
    /\ last_op = "add"
    /\ digest_size = 12
    /\ Len(calls) = 2
    /\ calls[1] = calls[2]
    /\ Len(store_file) = RecordLen
    /\ prev.file = store_file

\* C12: the digest list has no duplicate, and record p of the backing file
\* starts with the p-th digest of the list.
C12_ListMatchesFile ==
    /\ \A i, j \in 1..Len(hashes) : i # j => hashes[i] # hashes[j]
    /\ Len(store_file) = Len(hashes) * RecordLen
    /\ \A p \in 0..(Len(hashes) - 1) :
          Slice(store_file, p * RecordLen,
                p * RecordLen + CeilDiv(digest_size, 8)) = hashes[p + 1]

\* Three adds, one of which found its digest present, leave two records;
\* the list is then loaded again from the file.
C12_Witness ==
    /\ last_op = "load"
    /\ Len(hashes) = 2
    /\ Len(calls) = 3
    /\ Len(store_file) = 2 * RecordLen

\* C13: get_data_by_hash(d) for a digest of the store returns the B-byte
\* literal of the first add of d.
C13_GetReturnsFirstLiteral ==
    last_op = "get" /\ fetched.hash \in Range(hashes) =>
        /\ fetched.err = "none"
        /\ Len(fetched.data) = block_size
        /\ fetched.data = FirstAdd(fetched.hash).data

\* The second of two records is looked up, after a later add of its digest
\* with another literal.
C13_Witness ==
    /\ last_op = "get"
    /\ Len(calls) = 3
    /\ calls[1].hash # calls[2].hash
    /\ calls[3].hash = calls[2].hash
    /\ calls[3].data # calls[2].data
    /\ calls[1].data # calls[2].data
    /\ fetched.hash = calls[2].hash
    /\ fetched.data = calls[2].data

\* C14: when I and T differ in length, or their length is not a multiple of
\* B, construction fails and no message is built.
C14_ConstructorRejectsBadSizes ==
    (Len(initial_image) # Len(target_image)
        \/ Len(initial_image) % block_size # 0) =>
            /\ pc \in {"new", "init_failed"}
            /\ message = EmptyMessage

\* The bits the serializer wrote for instruction k of the message.
InstructionBits(k) ==
    to_bitarray(message.instructions[k], message.changed_block_index_size,
                message.disk_ref_bits_size, message.msg_ref_bits_size)

\* The bit position in the delta file at which instruction k starts.
RECURSIVE InstructionStart(_)
InstructionStart(k) ==
    IF k = 1 THEN 2 * WriterHeaderWidth(message)
    ELSE InstructionStart(k - 1) + Len(InstructionBits(k - 1))

\* The receiver reads the header and disk_index fields with the widths they
\* were written with.
WidthsAgree ==
    /\ decoder.header_bits_size = WriterHeaderWidth(message)
    /\ decoder.changed_block_index_size = message.changed_block_index_size

\* The file ends inside instruction k, after its disk_index field.
EndsInside(k) ==
    /\ InstructionStart(k) + message.changed_block_index_size <= 8 * Len(bit_file)
    /\ 8 * Len(bit_file) < InstructionStart(k) + Len(InstructionBits(k))

\* C15: when the delta file ends after an instruction's disk_index field and
\* before the end of that instruction, get_message_from_bits raises the
\* error of a short read (ValueError) and returns no message.
C15_TruncationIsReported ==
    (pc = "decoded" \/ pc = "decode_failed")
        /\ WidthsAgree
        /\ (\E k \in 1..Len(message.instructions) : EndsInside(k))
    => pc = "decode_failed" /\ error = "ValueError"

\* The digest hint of instruction k of msg: the hash of a Literal payload,
\* a Hash payload itself, the digest of the block of I a DiskReference
\* names, the hint of the instruction a MessageReference names.
RECURSIVE DigestHint(_, _)
DigestHint(msg, k) ==
    LET inst == msg.instructions[k]
    IN CASE inst.data_type = "Literal" -> Hash(inst.data, digest_size)
         [] inst.data_type = "Hash" -> inst.data
         [] inst.data_type = "DiskReference" -> initial_hash_at(from_bytes(inst.data))
         [] inst.data_type = "MessageReference" ->
               DigestHint(msg, from_bytes(inst.data) + 1)

\* C16: the deserializer reconstructs every instruction of the written
\* message, and the digest hint of each equals the digest of the block of T
\* at its disk_index.
C16_DigestHintMatchesTarget ==
    DecodeRan =>
        \A k \in 1..Len(message.instructions) :
            /\ k <= Len(decoder.instructions)
            /\ DigestHint(decoder, k)
                  = updated_hash_at(decoder.instructions[k].disk_index)

\* The last read asked for at least one bit when every bit of the file had
\* been returned by the reads before it.
ReadAtEnd ==
    /\ bpc = "reading"
    /\ nreads >= 1
    /\ Len(got) = 8 * Len(file_bytes)
    /\ requested > Len(got)

\* C17: read(n) with n >= 1 at a position where no unread bit remains
\* returns end of input (None) and does not raise.
C17_EndOfInputIsNone == ReadAtEnd => last_read = "None"

\* C18: after non-empty writes and a close, reads whose lengths add up to
\* no more than the bits written all succeed, and the bits they return, in
\* order, are the first bits written.
C18_ReadsReturnWrittenPrefix ==
    bpc = "reading" /\ nwrites >= 1 /\ ~wrote_empty
        /\ requested <= Len(written) =>
            /\ last_read = "ok"
            /\ got = Take(written, requested)

\* Two non-empty writes make a two-byte file with a partial last byte; two
\* reads together return all nine bits, the second crossing into the
\* second byte after a refill.
C18_Witness ==
    /\ bpc = "reading"
    /\ nwrites = 2
    /\ ~wrote_empty
    /\ writer.bit_index = 1
    /\ Len(written) = 9
    /\ written[9] = 1
    /\ nreads = 2
    /\ reader.buffer_bit_index = 1
    /\ requested = 9
    /\ got = written

\* The payloads, as integers, of the instructions of one kind in the built
\* message.
Payloads(kind) ==
    {from_bytes(message.instructions[k].data) :
        k \in {j \in DOMAIN message.instructions :
                  message.instructions[j].data_type = kind}}

\* bits(largest payload of the kind), or 1 when none was emitted.
PayloadWidth(kind) ==
    IF Payloads(kind) = {} THEN 1
    ELSE Bits(CHOOSE m \in Payloads(kind) : \A x \in Payloads(kind) : x <= m)

\* C19: after build_message over N blocks the four widths of the message
\* are bits(N - 1) for the changed-block index, bits(N) for the header,
\* and bits(largest payload emitted) (1 if none) for disk and message
\* references, and each lies in 1..64.
C19_WidthsAfterBuild ==
    BuildDone =>
        /\ message.changed_block_index_size = Bits(NumBlocks - 1)
        /\ message.header_bits_size = Bits(NumBlocks)
        /\ message.disk_ref_bits_size = PayloadWidth("DiskReference")
        /\ message.msg_ref_bits_size = PayloadWidth("MessageReference")
        /\ \A w \in {message.changed_block_index_size, message.header_bits_size,
                     message.disk_ref_bits_size, message.msg_ref_bits_size} :
              w \in 1..64

\* A built message over three blocks with a disk reference to block 2 (two
\* bits wide) and a message reference to instruction 0 (one bit wide).
C19_Witness ==
    /\ pc = "built"
    /\ NumBlocks = 3
    /\ 2 \in Payloads("DiskReference")
    /\ Payloads("MessageReference") = {0}
    /\ message.disk_ref_bits_size = 2
    /\ message.msg_ref_bits_size = 1
    /\ message.header_bits_size = 2
    /\ message.changed_block_index_size = 2

\* The payload bits the serializer writes for an instruction of the message.
PayloadBitsWritten(inst) ==
    CASE inst.data_type = "Literal" -> 8 * block_size
      [] inst.data_type = "Hash" -> 8 * CeilDiv(digest_size, 8)
      [] inst.data_type = "DiskReference" -> message.disk_ref_bits_size
      [] inst.data_type = "MessageReference" -> message.msg_ref_bits_size

\* C20: for an instruction of any of the four kinds, the deserializer reads
\* its payload without error and consumes exactly the payload bits the
\* serializer wrote: 8*B, 8*ceil(D/8), disk_ref_bits or msg_ref_bits.
C20_PayloadBitsSymmetric ==
    pc = "payload_read" =>
        /\ Len(written) = PayloadBitsWritten(message.instructions[1])
        /\ error = "none"
        /\ last_read = "ok"
        /\ got = written

\* The instruction the builder emitted last, and its 0-based message index.
LastIndex == Len(message.instructions) - 1
LastInstruction == message.instructions[Len(message.instructions)]

\* C21: once the builder has emitted an instruction for a changed block
\* with target digest h, of any kind, hash_to_message_index[h] is the
\* message index of that instruction.
C21_LastEmittedIsRecorded ==
    pc \in {"build", "built"} /\ Len(message.instructions) > 0 =>
        LET h == updated_hash_at(LastInstruction.disk_index)
        IN /\ h \in DOMAIN message.hash_to_message_index
           /\ message.hash_to_message_index[h] = LastIndex

\* The blocks of I whose digest is h.
IndexesWithDigest(h) == {j \in BlockIndexes : initial_hash_at(j) = h}

\* The smallest element of a non-empty set of integers.
Least(S) == CHOOSE m \in S : \A x \in S : m <= x

\* int.to_bytes with the fewest bytes, one zero byte for 0.
MinimalBytes(v) == to_bytes(v, Max(1, CeilDiv(bit_length(v), 8)))

\* C22: the payload of every DiskReference instruction is, big-endian in
\* the fewest bytes, the start of the first run of the target digest in the
\* initial image's run list, which is the smallest block index of I with
\* that digest.
C22_DiskReferenceIsFirstRunStart ==
    \A k \in 1..Len(message.instructions) :
        LET inst == message.instructions[k]
            h    == updated_hash_at(inst.disk_index)
        IN inst.data_type = "DiskReference" =>
              /\ IndexesWithDigest(h) # {}
              /\ Len(get_indexes_by_hash(indexes_by_hash, h)) > 0
              /\ from_bytes(inst.data) = get_indexes_by_hash(indexes_by_hash, h)[1][1]
              /\ from_bytes(inst.data) = Least(IndexesWithDigest(h))
              /\ inst.data = MinimalBytes(Least(IndexesWithDigest(h)))

\* A built message with a disk reference to block 0 whose digest has two
\* runs in I, and a disk reference to block 1.
C22_Witness ==
    /\ pc = "built"
    /\ \E k \in 1..Len(message.instructions) :
          LET inst == message.instructions[k]
              runs == get_indexes_by_hash(indexes_by_hash,
                                          updated_hash_at(inst.disk_index))
          IN /\ inst.data_type = "DiskReference"
             /\ Len(runs) = 2
             /\ from_bytes(inst.data) = 0
    /\ \E k \in 1..Len(message.instructions) :
          /\ message.instructions[k].data_type = "DiskReference"
          /\ from_bytes(message.instructions[k].data) = 1

\* The indices covered by a run list.
RunIndexes(run) == run[1]..(run[1] + run[2] - 1)

\* C23: after load over the N blocks of I, the run list of every digest is
\* ascending, its runs are disjoint and not adjacent, and together they
\* cover exactly the blocks with that digest; every block is in exactly one
\* run.
C23_RunListsPartitionBlocks ==
    /\ \A d \in DOMAIN indexes_by_hash :
          LET runs == indexes_by_hash[d]
          IN /\ Len(runs) > 0
             /\ \A k \in 1..Len(runs) : runs[k][1] >= 0 /\ runs[k][2] >= 1
             /\ \A k \in 1..(Len(runs) - 1) :
                   runs[k][1] + runs[k][2] < runs[k + 1][1]
             /\ UNION {RunIndexes(runs[k]) : k \in 1..Len(runs)}
                   = IndexesWithDigest(d)
    /\ \A i \in BlockIndexes :
          Cardinality({<<d, k>> \in UNION {{d} \X (1..Len(indexes_by_hash[d])) :
                                             d \in DOMAIN indexes_by_hash} :
                          i \in RunIndexes(indexes_by_hash[d][k])}) = 1

\* Blocks 0 and 2 of a three-block image share a digest that block 1 does
\* not have: that digest has two runs, the other has one.
C23_Witness ==
    /\ pc = "build"
    /\ NumBlocks = 3
    /\ \E d \in DOMAIN indexes_by_hash : indexes_by_hash[d] = <<<<0, 1>>, <<2, 1>>>>
    /\ \E d \in DOMAIN indexes_by_hash : indexes_by_hash[d] = <<<<1, 1>>>>

\* The blocks build_message treats as changed, and add(h_T, literal) for one.
ChangedBlocks == {i \in BlockIndexes : BlockChanged(i)}
AddCallFor(i) ==
    [hash |-> updated_hash_at(i),
     data |-> literal_by_index(target_image, block_size, i)]

\* C24: when build_message has completed, the store holds the target digest
\* of every changed block, add was called once per changed block and for no
\* other block, and if every changed block's digest was in the store when
\* the run started, the digest list and the backing file are as they were.
C24_StoreAfterBuild ==
    BuildDone =>
        /\ \A i \in ChangedBlocks : updated_hash_at(i) \in Range(hashes)
        /\ Len(calls) = Cardinality(ChangedBlocks)
        /\ \A k \in 1..Len(calls) : \E i \in ChangedBlocks : calls[k] = AddCallFor(i)
        /\ \A i \in ChangedBlocks : \E k \in 1..Len(calls) : calls[k] = AddCallFor(i)
        /\ (\A i \in ChangedBlocks : updated_hash_at(i) \in Range(hashes0)) =>
              /\ hashes = hashes0
              /\ store_file = store_file0

\* A completed build with a changed and an unchanged block, the changed
\* block's digest being in the store from an earlier run: add was called
\* once and the store is as it was.
C24_Witness ==
    /\ pc = "built"
    /\ ChangedBlocks # {}
    /\ ChangedBlocks # BlockIndexes
    /\ \A i \in ChangedBlocks : updated_hash_at(i) \in Range(hashes0)
    /\ Len(calls) = Cardinality(ChangedBlocks)
    /\ store_file0 # <<>>
    /\ store_file = store_file0

\* The sequence s is the beginning of the sequence t.
IsPrefix(s, t) == Len(s) <= Len(t) /\ Take(t, Len(s)) = s

\* C25: a new BlockHashStore opened on the backing file after any adds loads
\* the digest list the store had, and through adds and reopens the digest
\* list only grows at its end.
C25_ReopenKeepsDigests ==
    [][/\ IsPrefix(hashes, hashes')
       /\ last_op' = "load" => hashes' = hashes]_vars

\* Three two-byte digests were added one by one and the store was opened
\* again: the loaded list is the three digests in the order of the adds.
C25_Witness ==
    /\ last_op = "load"
    /\ digest_size = 12
    /\ Len(calls) = 3
    /\ Len(prev.hashes) = 2
    /\ hashes = <<calls[1].hash, calls[2].hash, calls[3].hash>>
    /\ hashes = store_load(store_file, block_size, digest_size)

\* Block i of an image.
BlockOf(image, i) == Slice(image, i * block_size, (i + 1) * block_size)

\* The literal the k-th instruction (1-based) of the message resolves to.
Resolved(k) ==
    get_literal_from_instruction(message.instructions[k], message,
        initial_image, block_size, hashes, store_file, digest_size).data

\* The last position in the message of an instruction that targets block i.
LastAt(i) == CHOOSE k \in InstructionsAt(i) : \A j \in InstructionsAt(i) : j <= k

\* C26: after apply_message on a message whose instructions all resolve, the
\* output is as long as I, a block no instruction targets is I's block, and
\* a targeted block is the literal of the last instruction that targets it.
C26_LastInstructionWins ==
    pc = "applied" =>
        /\ Len(output) = Len(initial_image)
        /\ \A i \in BlockIndexes :
              BlockOf(output, i) =
                  IF InstructionsAt(i) = {} THEN BlockOf(initial_image, i)
                  ELSE Resolved(LastAt(i))

\* Two instructions target block 0 with different literals, the second by
\* reference to I; block 1 has no instruction and differs from both.
C26_Witness ==
    /\ pc = "applied"
    /\ NumBlocks = 2
    /\ InstructionsAt(0) = {1, 2}
    /\ InstructionsAt(1) = {}
    /\ message.instructions[1].data_type = "Literal"
    /\ message.instructions[2].data_type = "DiskReference"
    /\ Resolved(1) # Resolved(2)
    /\ BlockOf(output, 0) = Resolved(2)
    /\ BlockOf(output, 0) # BlockOf(initial_image, 0)
    /\ BlockOf(output, 1) = BlockOf(initial_image, 1)

\* The reference hops get_literal_from_instruction makes from the k-th
\* instruction (1-based) until it reaches an instruction that is not a
\* MessageReference; -1 when it has not got there after `fuel` hops or the
\* reference names no instruction.
RECURSIVE HopsFrom(_, _)
HopsFrom(k, fuel) ==
    LET inst == message.instructions[k]
        next == from_bytes(inst.data) + 1
    IN IF inst.data_type # "MessageReference" THEN 0
       ELSE IF fuel = 0 \/ next \notin 1..Len(message.instructions) THEN -1
       ELSE IF HopsFrom(next, fuel - 1) < 0 THEN -1
       ELSE 1 + HopsFrom(next, fuel - 1)

\* C27: in a message the builder produced, resolving any instruction makes
\* finitely many reference hops: fewer than there are instructions.
C27_ResolutionTerminates ==
    \A k \in 1..Len(message.instructions) :
        HopsFrom(k, Len(message.instructions)) \in 0..(k - 1)

\* A built message with two message references was applied and gave T.
C27_Witness ==
    /\ pc = "applied"
    /\ Cardinality({k \in 1..Len(message.instructions) :
                       message.instructions[k].data_type = "MessageReference"}) = 2
    /\ \A k \in 1..Len(message.instructions) :
          message.instructions[k].data_type = "MessageReference" =>
              HopsFrom(k, Len(message.instructions)) = 1
    /\ output = target_image

\* The positions (1-based) of the instructions emitted for blocks whose
\* target digest is h.
EmittedFor(h) ==
    {k \in 1..Len(message.instructions) :
        updated_hash_at(message.instructions[k].disk_index) = h}

\* Every MessageReference names the first instruction emitted for its
\* digest, and that instruction is not a MessageReference.
ReferencesNameFirst ==
    \A k \in 1..Len(message.instructions) :
        LET inst == message.instructions[k]
            h    == updated_hash_at(inst.disk_index)
            ref  == from_bytes(inst.data) + 1
        IN inst.data_type = "MessageReference" =>
              /\ ref \in EmittedFor(h)
              /\ \A j \in EmittedFor(h) : ref <= j
              /\ message.instructions[ref].data_type # "MessageReference"
              /\ message.hash_to_message_index[h] = ref - 1

\* No step changes or removes an entry of hash_to_message_index.
EntriesKept ==
    \A h \in DOMAIN message.hash_to_message_index :
        /\ h \in DOMAIN message'.hash_to_message_index
        /\ message'.hash_to_message_index[h] = message.hash_to_message_index[h]

\* C28: hash_to_message_index entries are written once and never
\* overwritten, every MessageReference payload is the message index of the
\* first instruction emitted for its digest, and that instruction is not a
\* MessageReference.
C28_EntriesWrittenOnce == [](ReferencesNameFirst) /\ [][EntriesKept]_vars

\* Three changed blocks with one target digest: a first instruction and two
\* references to it, the entry still naming the first.
C28_Witness ==
    /\ pc = "built"
    /\ Len(message.instructions) = 3
    /\ EmittedFor(updated_hash_at(0)) = {1, 2, 3}
    /\ message.instructions[1].data_type # "MessageReference"
    /\ message.instructions[2].data = <<0>>
    /\ message.instructions[3].data = <<0>>
    /\ message.instructions[3].data_type = "MessageReference"
    /\ message.hash_to_message_index[updated_hash_at(0)] = 0

\* The width the serializer declares for the payload of an instruction of
\* the built message.
DeclaredPayloadBits(inst) ==
    CASE inst.data_type = "Literal" -> 8 * block_size
      [] inst.data_type = "Hash" -> 8 * CeilDiv(digest_size, 8)
      [] inst.data_type = "DiskReference" -> message.disk_ref_bits_size
      [] inst.data_type = "MessageReference" -> message.msg_ref_bits_size

\* C29: in a built message every disk_index is below 2^changed_index_bits,
\* every DiskReference payload below 2^disk_ref_bits, every MessageReference
\* payload below 2^msg_ref_bits, and both reference widths are below
\* 2^header_bits, so each field the serializer writes has its declared
\* width.
C29_FieldsFitTheirWidths ==
    BuildDone =>
        /\ message.disk_ref_bits_size < Pow2(message.header_bits_size)
        /\ message.msg_ref_bits_size < Pow2(message.header_bits_size)
        /\ Len(FormatBits(message.disk_ref_bits_size, WriterHeaderWidth(message)))
              = message.header_bits_size
        /\ Len(FormatBits(message.msg_ref_bits_size, WriterHeaderWidth(message)))
              = message.header_bits_size
        /\ \A k \in 1..Len(message.instructions) :
              LET inst == message.instructions[k]
              IN /\ inst.disk_index < Pow2(message.changed_block_index_size)
                 /\ inst.data_type = "DiskReference" =>
                       from_bytes(inst.data) < Pow2(message.disk_ref_bits_size)
                 /\ inst.data_type = "MessageReference" =>
                       from_bytes(inst.data) < Pow2(message.msg_ref_bits_size)
                 /\ Len(to_bitarray(inst, message.changed_block_index_size,
                            message.disk_ref_bits_size, message.msg_ref_bits_size))
                       = message.changed_block_index_size + 2
                             + DeclaredPayloadBits(inst)

\* A written message over three blocks whose last instruction targets block
\* 2 and refers to instruction 1: the block index takes two bits, the
\* message reference one.
C29_Witness ==
    /\ pc = "written"
    /\ NumBlocks = 3
    /\ Len(message.instructions) = 3
    /\ message.instructions[3].disk_index = 2
    /\ message.instructions[3].data_type = "MessageReference"
    /\ from_bytes(message.instructions[3].data) = 1
    /\ message.changed_block_index_size = 2
    /\ message.msg_ref_bits_size = 1
    /\ Len(bit_file) * 8 >= 2 * message.header_bits_size + 3 * 4 + 1

\* An instruction before position k (1-based) targets block j.
OverwrittenBefore(k, j) ==
    \E e \in 1..(k - 1) : message.instructions[e].disk_index = j

\* C30: after the builder's message is applied to a copy of I, the block a
\* DiskReference with payload j targets holds block j of I as it was, also
\* when an earlier instruction overwrote block j of the output.
C30_DiskReferenceReadsInitialImage ==
    pc = "applied" =>
        \A k \in 1..Len(message.instructions) :
            LET inst == message.instructions[k]
            IN inst.data_type = "DiskReference" =>
                  BlockOf(output, inst.disk_index)
                      = BlockOf(initial_image, from_bytes(inst.data))

\* T swaps two different blocks of I: the second disk reference names a
\* block the first instruction already overwrote, and the output is T.
C30_Witness ==
    /\ pc = "applied"
    /\ \E k \in 1..Len(message.instructions) :
          LET inst == message.instructions[k]
              j    == from_bytes(inst.data)
          IN /\ inst.data_type = "DiskReference"
             /\ OverwrittenBefore(k, j)
             /\ BlockOf(target_image, j) # BlockOf(initial_image, j)
             /\ BlockOf(output, inst.disk_index) = BlockOf(initial_image, j)
    /\ output = target_image
    /\ output # initial_image

====
